---- MODULE Spec2Model ----
(***************************************************************************)
(* A model of tools/migrate_lang.py: the catalog parser (parse_en_table), *)
(* the macro classifier (choose_macro), the call-site rewriter            *)
(* (transform_file) and the batch driver (main).                          *)
(*                                                                         *)
(* Text is modelled character by character on TLA+ strings.  Offsets are  *)
(* the 0-based offsets of the Python code: Slice(s, a, b) is s[a:b].      *)
(***************************************************************************)
EXTENDS Integers, Sequences, FiniteSets, TLC

(***************************************************************************)
(* Strings                                                                 *)
(***************************************************************************)
Max(a, b) == IF a >= b THEN a ELSE b

\* s[a:b] for 0 <= a, b <= len(s)
Slice(s, a, b) == SubSeq(s, a + 1, b)

\* s[i] for 0 <= i < len(s)
Chr(s, i) == SubSeq(s, i + 1, i + 1)

\* s.startswith(lit, i)
StartsAt(s, i, lit) ==
    /\ i >= 0
    /\ i + Len(lit) <= Len(s)
    /\ Slice(s, i, i + Len(lit)) = lit

\* \w of the re module, on the characters the model uses
WordChars ==
    {"A", "B", "C", "D", "E", "F", "G", "H", "I", "J", "K", "L", "M",
     "N", "O", "P", "Q", "R", "S", "T", "U", "V", "W", "X", "Y", "Z",
     "a", "b", "c", "d", "e", "f", "g", "h", "i", "j", "k", "l", "m",
     "n", "o", "p", "q", "r", "s", "t", "u", "v", "w", "x", "y", "z",
     "0", "1", "2", "3", "4", "5", "6", "7", "8", "9", "_"}

IsWord(c) == c \in WordChars

\* \s of the re module and the characters str.rstrip() removes
SpaceChars == {" ", "\t", "\n", "\r"}

IsSpace(c) == c \in SpaceChars

\* the offset where a greedy \w* starting at i stops
RECURSIVE WordEnd(_, _)
WordEnd(s, i) ==
    IF i < Len(s) /\ IsWord(Chr(s, i)) THEN WordEnd(s, i + 1) ELSE i

\* the offset where a greedy \s* starting at i stops
RECURSIVE SpaceEnd(_, _)
SpaceEnd(s, i) ==
    IF i < Len(s) /\ IsSpace(Chr(s, i)) THEN SpaceEnd(s, i + 1) ELSE i

\* s.find(lit, from): the first offset >= from where lit occurs, or -1
Find(s, lit, from) ==
    LET hits == {k \in from..Len(s) - Len(lit) : StartsAt(s, k, lit)} IN
    IF hits = {} THEN -1
    ELSE CHOOSE k \in hits : \A j \in hits : k <= j

\* s.rstrip()
RECURSIVE RStrip(_)
RStrip(s) ==
    IF Len(s) > 0 /\ IsSpace(Chr(s, Len(s) - 1))
    THEN RStrip(Slice(s, 0, Len(s) - 1))
    ELSE s

\* s.replace(old, new): every non-overlapping occurrence, left to right
RECURSIVE ReplaceFrom(_, _, _, _)
ReplaceFrom(s, i, old, new) ==
    LET k == Find(s, old, i) IN
    IF k = -1 THEN Slice(s, i, Len(s))
    ELSE Slice(s, i, k) \o new \o ReplaceFrom(s, k + Len(old), old, new)

Replace(s, old, new) == ReplaceFrom(s, 0, old, new)

\* f.read() of a file opened in text mode: universal newlines, "\r\n"
\* and a lone "\r" are read as "\n"
ReadText(t) == Replace(Replace(t, "\r\n", "\n"), "\r", "\n")

\* os.linesep of the platform main runs on (POSIX)
LineSep == "\n"

\* f.write() to a file opened in text mode: "\n" is written as os.linesep
WriteText(t) == Replace(t, "\n", LineSep)

(***************************************************************************)
(* 1. parse_en_table                                                       *)
(***************************************************************************)
TableDecl == "static const char* messages_en[MSG_COUNT]"

\* the declaration regex anchored at i, up to and including the '{':
\* the offset after the '{', or -1
TableOpen(text, i) ==
    IF ~StartsAt(text, i, TableDecl) THEN -1
    ELSE LET a == SpaceEnd(text, i + Len(TableDecl)) IN
         IF ~StartsAt(text, a, "=") THEN -1
         ELSE LET b == SpaceEnd(text, a + 1) IN
              IF StartsAt(text, b, "{") THEN b + 1 ELSE -1

\* re.search of the table regex: the leftmost i where the declaration
\* matches and a "};" follows; the lazy (.*?) under DOTALL ends at the
\* first "};".  The body's [start, end) offsets, or <<-1, -1>>.
RECURSIVE SearchTable(_, _)
SearchTable(text, i) ==
    IF i >= Len(text) THEN <<-1, -1>>
    ELSE LET open == TableOpen(text, i)
             close == IF open = -1 THEN -1 ELSE Find(text, "};", open)
         IN  IF close # -1 THEN <<open, close>>
             ELSE SearchTable(text, i + 1)

\* the offset where (?:[^"\\]|\\.)* starting at i stops ('.' is not '\n')
RECURSIVE StrEnd(_, _)
StrEnd(s, i) ==
    IF i >= Len(s) THEN i
    ELSE IF Chr(s, i) = "\"" THEN i
    ELSE IF Chr(s, i) = "\\"
         THEN IF i + 1 < Len(s) /\ Chr(s, i + 1) # "\n"
              THEN StrEnd(s, i + 2)
              ELSE i
         ELSE StrEnd(s, i + 1)

\* the entry regex \[(\w+)\]\s*=\s*"((?:[^"\\]|\\.)*)" anchored at i:
\* [end, key, val], end = -1 when it does not match
NoEntry == [end |-> -1, key |-> "", val |-> ""]

EntryAt(body, i) ==
    IF ~StartsAt(body, i, "[") THEN NoEntry
    ELSE LET k == WordEnd(body, i + 1) IN
         IF k = i + 1 \/ ~StartsAt(body, k, "]") THEN NoEntry
         ELSE LET a == SpaceEnd(body, k + 1) IN
              IF ~StartsAt(body, a, "=") THEN NoEntry
              ELSE LET b == SpaceEnd(body, a + 1) IN
                   IF ~StartsAt(body, b, "\"") THEN NoEntry
                   ELSE LET e == StrEnd(body, b + 1) IN
                        IF ~StartsAt(body, e, "\"") THEN NoEntry
                        ELSE [end |-> e + 1,
                              key |-> Slice(body, i + 1, k),
                              val |-> Slice(body, b + 1, e)]

EmptyMap == [k \in {} |-> ""]

\* mapping[key] = val
SetItem(mapping, key, val) ==
    [k \in DOMAIN mapping \cup {key} |-> IF k = key THEN val ELSE mapping[k]]

\* for entry in re.finditer(...): mapping[key] = val
RECURSIVE ParseEntries(_, _, _)
ParseEntries(body, i, mapping) ==
    IF i >= Len(body) THEN mapping
    ELSE LET e == EntryAt(body, i) IN
         IF e.end = -1 THEN ParseEntries(body, i + 1, mapping)
         ELSE ParseEntries(body, e.end, SetItem(mapping, e.key, e.val))

\* HasTable, wrong: content with the declaration's words passes, whether
\* or not the "= {" and the closing "};" are there
HasTableLoose(text) == Find(text, TableDecl, 0) # -1

\* whether re.search finds the messages_en region
HasTable(text) == SearchTable(text, 0)[1] # -1

\* the mapping parse_en_table returns when the region exists
parse_en_table(text) ==
    LET m == SearchTable(text, 0) IN
    ParseEntries(Slice(text, m[1], m[2]), 0, EmptyMap)

(***************************************************************************)
(* 2. choose_macro                                                         *)
(***************************************************************************)
\* '%' in en_str
HasPercent(en_str) == \E i \in 0..Len(en_str) - 1 : Chr(en_str, i) = "%"

\* re.search(lit \s* , \s* $, c): lit somewhere, then only white space
\* around one comma up to the end of c
SearchCommaTail(c, lit) ==
    \E i \in 0..Len(c) - 1 :
        /\ StartsAt(c, i, lit)
        /\ LET a == SpaceEnd(c, i + Len(lit)) IN
           /\ StartsAt(c, a, ",")
           /\ SpaceEnd(c, a + 1) = Len(c)

\* choose_macro, wrong: the call site is looked at before the value
choose_macro_context_first(en_str, context_before) ==
    IF SearchCommaTail(RStrip(context_before), "\"%s\"") THEN "LA_S"
    ELSE IF SearchCommaTail(RStrip(context_before), ")") THEN "LA_S"
    ELSE IF HasPercent(en_str) THEN "LA_F"
    ELSE "LA_W"

\* choose_macro, wrong: the rule for a preceding ")," is missing
choose_macro_no_paren(en_str, context_before) ==
    IF HasPercent(en_str) THEN "LA_F"
    ELSE IF SearchCommaTail(RStrip(context_before), "\"%s\"") THEN "LA_S"
    ELSE "LA_W"

choose_macro(en_str, context_before) ==
    IF HasPercent(en_str) THEN "LA_F"
    ELSE IF SearchCommaTail(RStrip(context_before), "\"%s\"") THEN "LA_S"
    ELSE IF SearchCommaTail(RStrip(context_before), ")") THEN "LA_S"
    ELSE "LA_W"

(***************************************************************************)
(* 3. transform_file: the scan of one buffer                               *)
(***************************************************************************)
ContextLen == 40

\* _MSG_CALL_RE = MSG\((MSG_\w+)\) anchored at i: m.end(), or -1
MsgCallEnd(s, i) ==
    IF ~StartsAt(s, i, "MSG(MSG_") THEN -1
    ELSE LET j == WordEnd(s, i + 8) IN
         IF j > i + 8 /\ StartsAt(s, j, ")") THEN j + 1 ELSE -1

\* m.group(1) of the match over [start, end)
MsgKey(s, start, end) == Slice(s, start + 4, end - 1)

\* finditer: m.start() of the next match at or after from, or -1
RECURSIVE NextMatch(_, _)
NextMatch(s, from) ==
    IF from >= Len(s) THEN -1
    ELSE IF MsgCallEnd(s, from) # -1 THEN from
    ELSE NextMatch(s, from + 1)

\* MacroCall, wrong: the one-argument form, without the placeholder
MacroCallOneArg(macro, en_str) == macro \o "(\"" \o en_str \o "\")"

\* f'{macro}("{en_str}", 0)'
MacroCall(macro, en_str) == macro \o "(\"" \o en_str \o "\", 0)"

\* original[max(0, start-40):start]
ContextBefore(original, start) ==
    Slice(original, Max(0, start - ContextLen), start)

\* the locals of the loop: result (joined), pos, replaced; warned is the
\* keys of the WARN lines written to stderr, calls the choose_macro calls
ScanStart ==
    [result |-> "", pos |-> 0, replaced |-> 0, warned |-> <<>>, calls |-> <<>>]

\* SkipStep, wrong: 'pos = end' is missing
SkipStepNoAdvance(original, st, end, key) ==
    [st EXCEPT !.warned = Append(@, key),
               !.result = @ \o Slice(original, st.pos, end)]

\* SkipStep, wrong: the skipped occurrence is counted as replaced
SkipStepCounted(original, st, end, key) ==
    [st EXCEPT !.warned = Append(@, key),
               !.result = @ \o Slice(original, st.pos, end),
               !.pos = end,
               !.replaced = @ + 1]

\* the branch 'key not in msg_map'
SkipStep(original, st, end, key) ==
    [st EXCEPT !.warned = Append(@, key),
               !.result = @ \o Slice(original, st.pos, end),
               !.pos = end]

\* ReplaceStep, wrong: 'pos = end' is missing, so the reference is
\* copied again with the text that follows it
ReplaceStepNoAdvance(original, msg_map, st, start, end, key) ==
    LET en_str == msg_map[key]
        context_before == ContextBefore(original, start)
        macro == choose_macro(en_str, context_before)
    IN  [st EXCEPT !.result = @ \o Slice(original, st.pos, start)
                               \o MacroCall(macro, en_str),
                   !.replaced = @ + 1,
                   !.calls = Append(@, [en_str |-> en_str,
                                        context_before |-> context_before,
                                        macro |-> macro])]

\* the branch that rewrites the occurrence
ReplaceStep(original, msg_map, st, start, end, key) ==
    LET en_str == msg_map[key]
        context_before == ContextBefore(original, start)
        macro == choose_macro(en_str, context_before)
    IN  [st EXCEPT !.result = @ \o Slice(original, st.pos, start)
                               \o MacroCall(macro, en_str),
                   !.pos = end,
                   !.replaced = @ + 1,
                   !.calls = Append(@, [en_str |-> en_str,
                                        context_before |-> context_before,
                                        macro |-> macro])]

\* for m in _MSG_CALL_RE.finditer(original): ...
RECURSIVE ScanLoop(_, _, _, _)
ScanLoop(original, msg_map, from, st) ==
    LET start == NextMatch(original, from) IN
    IF start = -1 THEN st
    ELSE LET end == MsgCallEnd(original, start)
             key == MsgKey(original, start, end)
         IN  IF key \notin DOMAIN msg_map
             THEN ScanLoop(original, msg_map, end,
                           SkipStep(original, st, end, key))
             ELSE ScanLoop(original, msg_map, end,
                           ReplaceStep(original, msg_map, st, start, end, key))

OldInclude == "#include \"p2p_lang.h\""
NewInclude == "#include \"LANG.h\""

\* the include substitution on the joined buffer
SwapInclude(transformed) ==
    IF Find(transformed, OldInclude, 0) # -1
    THEN Replace(transformed, OldInclude, NewInclude)
    ELSE transformed

\* lines 64-94: [transformed, replaced, warned, calls]
Rewrite(original, msg_map) ==
    LET st == ScanLoop(original, msg_map, 0, ScanStart)
        joined == st.result \o Slice(original, st.pos, Len(original))
    IN  [transformed |-> SwapInclude(joined),
         replaced |-> st.replaced,
         warned |-> st.warned,
         calls |-> st.calls]

(***************************************************************************)
(* 4. main: the batch driver, one step per statement that reads or writes *)
(* a file or the console                                                   *)
(***************************************************************************)
VARIABLES
    pc,           \* where main / transform_file stands
    dry_run,      \* '--dry-run' in sys.argv
    fs,           \* the file system: path -> [exists, text]
    src_files,    \* the list main iterates over
    msg_map,      \* the catalog parse_en_table returned
    idx,          \* 1-based position of the for loop in src_files
    original,     \* transform_file: the text read
    transformed,  \* transform_file: the rewritten buffer
    replaced,     \* transform_file: the counter it returns
    calls,        \* the choose_macro calls of the current file
    total,        \* main: the running sum
    stdout,       \* the lines printed
    stderr,       \* the keys of the WARN lines
    error,        \* the exception that ended the run, "" if none
    wopened,      \* the paths opened for writing in this run
    fs0,          \* the file system when this run started
    runs          \* how many times main has been started

vars == <<pc, dry_run, fs, src_files, msg_map, idx, original, transformed,
          replaced, calls, total, stdout, stderr, error, wopened, fs0, runs>>

LangC == "src/p2p_lang.c"

\* the head of main's hard-coded list
AllSrcFiles == <<"src/p2p.c", "src/p2p_ice.c", "src/p2p_nat.c", "src/p2p_route.c">>

Missing == [exists |-> FALSE, text |-> ""]
File(t) == [exists |-> TRUE, text |-> t]

Line(kind, file, n) == [line |-> kind, file |-> file, n |-> n]

\* path, wrong: the first file is taken whatever the loop position
path_first == src_files[1]

\* path = os.path.join(repo, rel), for the rel of this iteration
path == src_files[idx]

\* an uncaught exception: the interpreter prints the traceback and exits
Crash(exc) ==
    /\ pc' = "crashed"
    /\ error' = exc

\* main, lines 112-118: parse the catalog
ParseCatalog ==
    /\ pc = "parse"
    /\ IF ~fs[LangC].exists
       THEN /\ Crash("FileNotFoundError")
            /\ stdout' = Append(stdout, Line("Parsing", LangC, 0))
            /\ UNCHANGED <<msg_map, idx>>
       ELSE IF ~HasTable(ReadText(fs[LangC].text))
       THEN /\ Crash("RuntimeError")
            /\ stdout' = Append(stdout, Line("Parsing", LangC, 0))
            /\ UNCHANGED <<msg_map, idx>>
       ELSE /\ msg_map' = parse_en_table(ReadText(fs[LangC].text))
            /\ stdout' = stdout \o
                  <<Line("Parsing", LangC, 0),
                    Line("Found", "", Cardinality(DOMAIN msg_map')),
                    Line("Transforming", "", Len(src_files))>>
            /\ idx' = 1
            /\ pc' = IF Len(src_files) = 0 THEN "total" ELSE "open"
            /\ UNCHANGED error
    /\ UNCHANGED <<dry_run, fs, src_files, original, transformed, replaced,
                   calls, total, stderr, wopened, fs0, runs>>

\* transform_file, lines 61-62: read the file
OpenRead ==
    /\ pc = "open"
    /\ IF ~fs[path].exists
       THEN /\ Crash("FileNotFoundError")
            /\ UNCHANGED original
       ELSE /\ original' = ReadText(fs[path].text)
            /\ pc' = "scan"
            /\ UNCHANGED error
    /\ UNCHANGED <<dry_run, fs, src_files, msg_map, idx, transformed, replaced,
                   calls, total, stdout, stderr, wopened, fs0, runs>>

\* transform_file, lines 64-94: rewrite the buffer in memory
Scan ==
    /\ pc = "scan"
    /\ LET r == Rewrite(original, msg_map) IN
       /\ transformed' = r.transformed
       /\ replaced' = r.replaced
       /\ calls' = r.calls
       /\ stderr' = stderr \o r.warned
    /\ pc' = "report"
    /\ UNCHANGED <<dry_run, fs, src_files, msg_map, idx, original, total,
                   stdout, error, wopened, fs0, runs>>

\* transform_file, lines 96-98: dry run
DryReport ==
    /\ pc = "report"
    /\ dry_run
    /\ stdout' = IF replaced # 0
                 THEN Append(stdout, Line("DRY", path, replaced))
                 ELSE stdout
    /\ pc' = "ret"
    /\ UNCHANGED <<dry_run, fs, src_files, msg_map, idx, original, transformed,
                   replaced, calls, total, stderr, error, wopened, fs0, runs>>

\* OpenWrite, wrong: 'if transformed != original' is missing, so a file
\* is opened and written whether or not its text changed
OpenWriteAlways ==
    /\ pc = "report"
    /\ ~dry_run
    /\ fs' = [fs EXCEPT ![path] = File("")]
    /\ wopened' = wopened \cup {path}
    /\ pc' = "write"
    /\ UNCHANGED <<dry_run, src_files, msg_map, idx, original, transformed,
                   replaced, calls, total, stdout, stderr, error, fs0, runs>>

\* transform_file, lines 100-101: open(src_path, 'w') truncates the file
OpenWrite ==
    /\ pc = "report"
    /\ ~dry_run
    /\ transformed # original
    /\ fs' = [fs EXCEPT ![path] = File("")]
    /\ wopened' = wopened \cup {path}
    /\ pc' = "write"
    /\ UNCHANGED <<dry_run, src_files, msg_map, idx, original, transformed,
                   replaced, calls, total, stdout, stderr, error, fs0, runs>>

\* transform_file, lines 102-103: f.write(transformed), close, report
WriteBack ==
    /\ pc = "write"
    /\ fs' = [fs EXCEPT ![path] = File(WriteText(transformed))]
    /\ stdout' = Append(stdout, Line("OK", path, replaced))
    /\ pc' = "ret"
    /\ UNCHANGED <<dry_run, src_files, msg_map, idx, original, transformed,
                   replaced, calls, total, stderr, error, wopened, fs0, runs>>

\* transform_file, lines 104-105: nothing to write
NoChanges ==
    /\ pc = "report"
    /\ ~dry_run
    /\ transformed = original
    /\ stdout' = Append(stdout, Line("--", path, 0))
    /\ pc' = "ret"
    /\ UNCHANGED <<dry_run, fs, src_files, msg_map, idx, original, transformed,
                   replaced, calls, total, stderr, error, wopened, fs0, runs>>

\* transform_file, line 107, and main, lines 140-142: return replaced,
\* add it to total, go to the next file
Return ==
    /\ pc = "ret"
    /\ total' = total + replaced
    /\ original' = ""
    /\ transformed' = ""
    /\ replaced' = 0
    /\ calls' = <<>>
    /\ IF idx < Len(src_files)
       THEN idx' = idx + 1 /\ pc' = "open"
       ELSE idx' = idx /\ pc' = "total"
    /\ UNCHANGED <<dry_run, fs, src_files, msg_map, stdout, stderr, error,
                   wopened, fs0, runs>>

\* main, line 144
PrintTotal ==
    /\ pc = "total"
    /\ stdout' = Append(stdout, Line("Total", "", total))
    /\ pc' = "done"
    /\ UNCHANGED <<dry_run, fs, src_files, msg_map, idx, original, transformed,
                   replaced, calls, total, stderr, error, wopened, fs0, runs>>

MaxRuns == 2

\* lines 146-147: the tool is started again on the files as they are now
Rerun ==
    /\ pc \in {"done", "crashed"}
    /\ runs < MaxRuns
    /\ runs' = runs + 1
    /\ fs0' = fs
    /\ pc' = "parse"
    /\ msg_map' = EmptyMap
    /\ idx' = 0
    /\ original' = ""
    /\ transformed' = ""
    /\ replaced' = 0
    /\ calls' = <<>>
    /\ total' = 0
    /\ stdout' = <<>>
    /\ stderr' = <<>>
    /\ error' = ""
    /\ wopened' = {}
    /\ UNCHANGED <<dry_run, fs, src_files>>

Next ==
    \/ ParseCatalog
    \/ OpenRead
    \/ Scan
    \/ DryReport
    \/ OpenWrite
    \/ WriteBack
    \/ NoChanges
    \/ Return
    \/ PrintTotal
    \/ Rerun

\* the state when main starts, given the files on disk and the flag
Start(files, disk, flag) ==
    /\ pc = "parse"
    /\ dry_run = flag
    /\ src_files = files
    /\ fs = disk
    /\ fs0 = disk
    /\ msg_map = EmptyMap
    /\ idx = 0
    /\ original = ""
    /\ transformed = ""
    /\ replaced = 0
    /\ calls = <<>>
    /\ total = 0
    /\ stdout = <<>>
    /\ stderr = <<>>
    /\ error = ""
    /\ wopened = {}
    /\ runs = 1

(***************************************************************************)
(* The inputs of the batch specification: a few catalog files, with and   *)
(* without the table, and a few target files, present or missing          *)
(***************************************************************************)
NumFiles == 2

EntryA == "  [MSG_A] = \"a%s\",\n"
EntryB == "  [MSG_B] = \"b\",\n"

TableHead == TableDecl \o " = {\n"

BatchCatalogs ==
    {Missing,
     File("int x;\n"),
     File(TableDecl \o ";\n" \o EntryA \o "};\n"),
     File(TableHead \o EntryA \o EntryB),
     File(TableHead \o "};\n"),
     File(TableHead \o EntryA \o "};\n"),
     File(TableHead \o EntryB \o EntryA \o "  [MSG_B] = \"c\"\r\n};\r\n")}

BatchTargets ==
    {Missing,
     File("int y;\r\n"),
     File("f(MSG(MSG_Z));\n"),
     File("#include \"p2p_lang.h\"\r\nf(MSG(MSG_A), MSG(MSG_B));\r\n")}

BatchFiles == SubSeq(AllSrcFiles, 1, NumFiles)

BatchPaths == {BatchFiles[i] : i \in 1..NumFiles}

Init ==
    \E cat \in BatchCatalogs, flag \in BOOLEAN,
       disk \in [BatchPaths -> BatchTargets] :
        Start(BatchFiles, (LangC :> cat) @@ disk, flag)

Spec == Init /\ [][Next]_vars

(***************************************************************************)
(* The inputs of the rewriter specification: one target file whose text   *)
(* is any sequence of up to MaxFrags fragments, against catalogs whose    *)
(* MSG_B is plain text or text that is itself a reference                 *)
(***************************************************************************)
MaxFrags == 3

Fragments ==
    {"MSG(MSG_A)", "MSG(MSG_B)", "MSG(MSG_Z)", "\"%s\"", "\"%d\"", ", ",
     "#include \"p2p_lang.h\"\n"}

RECURSIVE Join(_)
Join(seq) == IF seq = <<>> THEN "" ELSE Head(seq) \o Join(Tail(seq))

Buffers ==
    UNION {{Join(seq) : seq \in [1..n -> Fragments]} : n \in 0..MaxFrags}

RewriteCatalogs ==
    {File(TableHead \o EntryA \o EntryB \o "};\n"),
     File(TableHead \o EntryA \o "  [MSG_B] = \"MSG(MSG_B)\",\n};\n")}

InitRewrite ==
    \E cat \in RewriteCatalogs, flag \in BOOLEAN, buf \in Buffers :
        Start(<<AllSrcFiles[1]>>,
              (LangC :> cat) @@ (AllSrcFiles[1] :> File(buf)), flag)

SpecRewrite == InitRewrite /\ [][Next]_vars

(***************************************************************************)
(* The vocabulary of the claims, stated on the text alone                  *)
(***************************************************************************)
\* transform_file has just rewritten the buffer (line 94); its locals
\* stay as they are until it returns
PostScan == pc = "report"

\* [i, e) is an occurrence of the reference pattern MSG(MSG_key)
RefSpan(s, i, e) ==
    /\ StartsAt(s, i, "MSG(MSG_")
    /\ i + 9 < e
    /\ e <= Len(s)
    /\ Chr(s, e - 1) = ")"
    /\ \A k \in i + 8..e - 2 : IsWord(Chr(s, k))

\* the end of the occurrence that starts at i, or -1
RefEndAt(s, i) ==
    IF /\ StartsAt(s, i, "MSG(MSG_")
       /\ \E e \in i + 10..Len(s) : RefSpan(s, i, e)
    THEN CHOOSE e \in i + 10..Len(s) : RefSpan(s, i, e)
    ELSE -1

RefKey(s, i, e) == Slice(s, i + 4, e - 1)

\* the starts of the occurrences whose key is / is not in the catalog
PresentRefs(s, map) ==
    {i \in 0..Len(s) - 1 :
        RefEndAt(s, i) # -1 /\ RefKey(s, i, RefEndAt(s, i)) \in DOMAIN map}

AbsentRefs(s, map) ==
    {i \in 0..Len(s) - 1 :
        RefEndAt(s, i) # -1 /\ RefKey(s, i, RefEndAt(s, i)) \notin DOMAIN map}

\* the length of MACRO("<val>", 0) for a four-letter MACRO
CallLen(val) == Len("LA_X(\"") + Len(val) + Len("\", 0)")

Macros == {"LA_F", "LA_S", "LA_W"}

\* Walk input and output together from (i, j): a rewritten span and an
\* include directive are stepped over by their lengths, every other byte
\* of the input must be the byte of the output at the shifted position.
RECURSIVE SameOutside(_, _, _, _, _)
SameOutside(inp, out, map, i, j) ==
    IF i >= Len(inp) THEN j = Len(out)
    ELSE LET e == RefEndAt(inp, i) IN
         IF e # -1 /\ RefKey(inp, i, e) \in DOMAIN map
         THEN SameOutside(inp, out, map, e,
                          j + CallLen(map[RefKey(inp, i, e)]))
         ELSE IF StartsAt(inp, i, OldInclude)
         THEN SameOutside(inp, out, map, i + Len(OldInclude),
                          j + Len(NewInclude))
         ELSE /\ j < Len(out)
              /\ Chr(out, j) = Chr(inp, i)
              /\ SameOutside(inp, out, map, i + 1, j + 1)

\* C1: after transform_file has rewritten a buffer, every byte of the
\* input outside the rewritten MSG(MSG_key) spans and outside the include
\* directive is in the output, in order, at its shifted position.
C1_Preservation ==
    PostScan => SameOutside(original, transformed, msg_map, 0, 0)

\* a rewritten span, a skipped span, an include directive and other text
C1_Witness ==
    /\ PostScan
    /\ replaced >= 1
    /\ Len(stderr) >= 1
    /\ Find(original, OldInclude, 0) # -1
    /\ transformed # original

\* Walk as above, but look at the rewritten spans: the output must hold
\* MACRO("<catalog value>", 0) there.  The number of such calls, or -1
\* when one of them is not of that form.
RECURSIVE MacroCallsFrom(_, _, _, _, _)
MacroCallsFrom(inp, out, map, i, j) ==
    IF i >= Len(inp) THEN 0
    ELSE LET e == RefEndAt(inp, i) IN
         IF e # -1 /\ RefKey(inp, i, e) \in DOMAIN map
         THEN LET val == map[RefKey(inp, i, e)]
                  n == CallLen(val)
                  rest == MacroCallsFrom(inp, out, map, e, j + n)
              IN  IF /\ j + n <= Len(out)
                     /\ Slice(out, j, j + 4) \in Macros
                     /\ Slice(out, j + 4, j + n) = "(\"" \o val \o "\", 0)"
                     /\ rest # -1
                  THEN rest + 1
                  ELSE -1
         ELSE IF StartsAt(inp, i, OldInclude)
         THEN MacroCallsFrom(inp, out, map, i + Len(OldInclude),
                             j + Len(NewInclude))
         ELSE MacroCallsFrom(inp, out, map, i + 1, j + 1)

\* C2: every occurrence MSG(MSG_key) whose key is in the catalog is
\* replaced by one call MACRO("<catalog value>", 0), MACRO one of LA_F,
\* LA_S, LA_W, and the number of these calls is the replaced count.
C2_Coverage ==
    PostScan =>
        /\ MacroCallsFrom(original, transformed, msg_map, 0, 0) = replaced
        /\ replaced = Cardinality(PresentRefs(original, msg_map))

\* two rewritten occurrences in one buffer
C2_Witness ==
    /\ PostScan
    /\ replaced >= 2
    /\ Cardinality(PresentRefs(original, msg_map)) >= 2

\* Walk as above, but look at the occurrences whose key is absent: the
\* output must hold the same text there.
RECURSIVE SkippedKept(_, _, _, _, _)
SkippedKept(inp, out, map, i, j) ==
    IF i >= Len(inp) THEN TRUE
    ELSE LET e == RefEndAt(inp, i) IN
         IF e # -1 /\ RefKey(inp, i, e) \in DOMAIN map
         THEN SkippedKept(inp, out, map, e,
                          j + CallLen(map[RefKey(inp, i, e)]))
         ELSE IF e # -1
         THEN /\ j + (e - i) <= Len(out)
              /\ Slice(out, j, j + (e - i)) = Slice(inp, i, e)
              /\ SkippedKept(inp, out, map, e, j + (e - i))
         ELSE IF StartsAt(inp, i, OldInclude)
         THEN SkippedKept(inp, out, map, i + Len(OldInclude),
                          j + Len(NewInclude))
         ELSE SkippedKept(inp, out, map, i + 1, j + 1)

\* what transform_file hands back to its caller (line 107)
RewriteResult == [replaced |-> replaced]

NoSelfReference(map) ==
    \A key \in DOMAIN map : PresentRefs(map[key], map) = {}

\* C4 as claimed: for every catalog, a second run over the output of a
\* write-mode run replaces nothing and leaves the buffer as it is.
C4_IdempotentAnyCatalog ==
    (PostScan /\ runs >= 2 /\ ~dry_run) =>
        (replaced = 0 /\ transformed = original)

\* C4, amended: the same, for catalogs none of whose values contains a
\* reference MSG(MSG_key) to a key of the catalog.
C4_Idempotent ==
    (PostScan /\ runs >= 2 /\ ~dry_run /\ NoSelfReference(msg_map)) =>
        (replaced = 0 /\ transformed = original)

\* the second run reads what the first wrote: a macro call, a skipped
\* reference and the new include
C4_Witness ==
    /\ PostScan
    /\ runs = 2
    /\ ~dry_run
    /\ NoSelfReference(msg_map)
    /\ Find(original, "LA_F(\"a%s\", 0)", 0) # -1
    /\ Find(original, NewInclude, 0) # -1
    /\ Len(stderr) >= 1

\* s without its trailing white space
TrimRight(s) ==
    Slice(s, 0, CHOOSE n \in 0..Len(s) :
                    /\ n = 0 \/ ~IsSpace(Chr(s, n - 1))
                    /\ \A k \in n..Len(s) - 1 : IsSpace(Chr(s, k)))

EndsWith(s, lit) == StartsAt(s, Len(s) - Len(lit), lit)

\* ignoring trailing white space, s ends with lit, white space, a comma
EndsWithThenComma(s, lit) ==
    LET t == TrimRight(s) IN
    /\ EndsWith(t, ",")
    /\ EndsWith(TrimRight(Slice(t, 0, Len(t) - 1)), lit)

ContainsPercent(s) == Find(s, "%", 0) # -1

\* C5: choose_macro always returns one of the three macros, and LA_F
\* for every value that contains '%', whatever precedes the call site.
C5_FormatPriority ==
    PostScan =>
        \A k \in 1..Len(calls) :
            /\ calls[k].macro \in Macros
            /\ ContainsPercent(calls[k].en_str) => calls[k].macro = "LA_F"

\* a value with '%' at a call site that follows "%s",
C5_Witness ==
    /\ PostScan
    /\ \E k \in 1..Len(calls) :
        /\ ContainsPercent(calls[k].en_str)
        /\ EndsWithThenComma(calls[k].context_before, "\"%s\"")
        /\ calls[k].macro = "LA_F"

\* ignoring trailing white space, s ends with a quoted two-character
\* placeholder, '%' and any character, and a comma
EndsWithAnyPlaceholderThenComma(s) ==
    LET t == TrimRight(s)
        u == TrimRight(Slice(t, 0, Len(t) - 1))
    IN  /\ EndsWith(t, ",")
        /\ Len(u) >= 4
        /\ Chr(u, Len(u) - 4) = "\""
        /\ Chr(u, Len(u) - 3) = "%"
        /\ Chr(u, Len(u) - 1) = "\""

\* C6 as claimed: a value without '%' is LA_S exactly when the context
\* ends with any quoted two-character placeholder and a comma, or with a
\* closing parenthesis and a comma, and LA_W otherwise.
C6_AnyPlaceholder ==
    PostScan =>
        \A k \in 1..Len(calls) :
            ~ContainsPercent(calls[k].en_str) =>
                calls[k].macro =
                    IF \/ EndsWithAnyPlaceholderThenComma(calls[k].context_before)
                       \/ EndsWithThenComma(calls[k].context_before, ")")
                    THEN "LA_S" ELSE "LA_W"

\* C6, amended: a value without '%' is LA_S exactly when the context,
\* ignoring trailing white space, ends with the placeholder "%s" and a
\* comma or with a closing parenthesis and a comma, and LA_W otherwise.
C6_Chained ==
    PostScan =>
        \A k \in 1..Len(calls) :
            ~ContainsPercent(calls[k].en_str) =>
                calls[k].macro =
                    IF \/ EndsWithThenComma(calls[k].context_before, "\"%s\"")
                       \/ EndsWithThenComma(calls[k].context_before, ")")
                    THEN "LA_S" ELSE "LA_W"

\* one buffer with a plain value and a value chained after ),
C6_Witness ==
    /\ PostScan
    /\ \E k \in 1..Len(calls) :
        /\ ~ContainsPercent(calls[k].en_str)
        /\ EndsWithThenComma(calls[k].context_before, ")")
        /\ calls[k].macro = "LA_S"
    /\ \E k \in 1..Len(calls) :
        /\ ~ContainsPercent(calls[k].en_str)
        /\ calls[k].macro = "LA_W"

(***************************************************************************)
(* The batch                                                               *)
(***************************************************************************)
Targets == {src_files[k] : k \in 1..Len(src_files)}

\* the run is over, normally or by an exception
RunEnded == pc \in {"done", "crashed"}

\* C7: a missing target file aborts only that file: once the catalog is
\* parsed, the run goes through the whole list and prints the total.
C7_MissingFileIsolated ==
    (RunEnded /\ idx >= 1) =>
        /\ pc = "done"
        /\ idx = Len(src_files)
        /\ stdout[Len(stdout)].line = "Total"

\* the text transform_file reads from the file p had when the run started
ReadAtStart(p) == ReadText(fs0[p].text)

\* the buffer transform_file makes of it
RewrittenAtStart(p) == Rewrite(ReadAtStart(p), msg_map).transformed

\* C8: in dry-run mode no file ever changes, and a file is opened for
\* writing only in write mode and only when its rewritten buffer differs
\* from its text.
C8_WriteOnlyWhenChanged ==
    /\ dry_run => fs = fs0
    /\ \A p \in wopened :
        /\ ~dry_run
        /\ p \in Targets
        /\ RewrittenAtStart(p) # ReadAtStart(p)

\* a write-mode run that wrote one file and left another, unchanged by
\* the rewrite, alone
C8_Witness ==
    /\ pc = "done"
    /\ ~dry_run
    /\ wopened # {}
    /\ \E p \in Targets \ wopened :
        /\ fs0[p].exists
        /\ RewrittenAtStart(p) = ReadAtStart(p)
        /\ fs[p] = fs0[p]

AllSpace(s, a, b) == \A k \in a..b - 1 : IsSpace(Chr(s, k))

\* text holds the declaration, '=', '{' and, later, "};"
TableShape(text) ==
    \E i \in 0..Len(text) :
        /\ StartsAt(text, i, TableDecl)
        /\ \E a \in i + Len(TableDecl)..Len(text) - 1 :
            /\ AllSpace(text, i + Len(TableDecl), a)
            /\ Chr(text, a) = "="
            /\ \E b \in a + 1..Len(text) - 1 :
                /\ AllSpace(text, a + 1, b)
                /\ Chr(text, b) = "{"
                /\ \E c \in b + 1..Len(text) : StartsAt(text, c, "};")

\* C9: when the catalog file lacks the table-literal region, parsing
\* fails with the structure error and the run ends before any target
\* file is read: no file changes.
C9_StructureErrorAborts ==
    (fs0[LangC].exists /\ ~TableShape(fs0[LangC].text)) =>
        /\ pc \in {"parse", "crashed"}
        /\ pc = "crashed" => error = "RuntimeError"
        /\ idx = 0
        /\ original = ""
        /\ wopened = {}
        /\ fs = fs0

\* the run has ended on the structure error, in write mode, with a
\* target on disk that holds a reference
C9_Witness ==
    /\ pc = "crashed"
    /\ error = "RuntimeError"
    /\ ~dry_run
    /\ Find(fs0[LangC].text, TableDecl, 0) # -1
    /\ \E p \in Targets :
        fs[p].exists /\ PresentRefs(fs[p].text, ("MSG_A" :> "")) # {}

\* the number of files transform_file has finished with
ProcessedCount ==
    IF pc \in {"ret", "total", "done"} THEN idx ELSE Max(idx - 1, 0)

\* the per-file verdict lines of a write-mode run
VerdictLines == SelectSeq(stdout, LAMBDA l : l.line \in {"OK", "--"})

\* p holds the content it had when the run started, or the whole buffer
\* the rewriter makes of the text read from it
OriginalOrRewritten(p) ==
    \/ fs[p] = fs0[p]
    \/ /\ fs[p].exists
       /\ fs0[p].exists
       /\ SameOutside(ReadAtStart(p), fs[p].text, msg_map, 0, 0)
       /\ MacroCallsFrom(ReadAtStart(p), fs[p].text, msg_map, 0, 0)
              = Cardinality(PresentRefs(ReadAtStart(p), msg_map))

====
